---- MODULE Spec2Model ----
(***************************************************************************)
(* Model of backend/server.js of AGRI-AI: the user_inputs store and its    *)
(* two routes, the routes that call the generation and translation         *)
(* endpoints, the reply normalisation of callGeminiAPI and the line        *)
(* classification pass that lays out the advisory report.                  *)
(*                                                                         *)
(* Four specifications share the module, one per independent part of the   *)
(* server (requests share no state but the store):                         *)
(*   Spec          POST/GET /api/user-inputs over the user_inputs table    *)
(*   SpecUpstream  /api/crop-analysis, /api/crop-plan, /api/disease-...    *)
(*   SpecRender    the lines.forEach pass of the report renderer           *)
(*   SpecGen       callGeminiAPI's choice between object and text          *)
(***************************************************************************)
EXTENDS Integers, Sequences, FiniteSets, TLC

VARIABLES
    \* ---- store (Spec)
    table,      \* rows of user_inputs in rowid order
    pending,    \* INSERT statements handed to db.run and not yet executed
    posts,      \* one record per POST /api/user-inputs received so far
    clock,      \* CURRENT_TIMESTAMP, in whole seconds
    lastGet,    \* the response of the latest GET /api/user-inputs/:userId
    \* ---- upstream routes (SpecUpstream)
    req,        \* the request being handled: route, body, position, response
    calls,      \* upstream calls issued for req, in order of issue
    \* ---- renderer (SpecRender)
    lines,      \* result.split('\n')
    idx,        \* index of the next line lines.forEach visits
    inTable,    \* let inTable
    tableRows,  \* let tableRows
    blocks,     \* what has been written to the document, in order
    \* ---- generation client (SpecGen)
    content,    \* the fence-stripped, trimmed reply text
    genResult   \* what callGeminiAPI returns for it

storeVars  == <<table, pending, posts, clock, lastGet>>
upVars     == <<req, calls>>
renderVars == <<lines, idx, inTable, tableRows, blocks>>
genVars    == <<content, genResult>>
vars == <<table, pending, posts, clock, lastGet, req, calls,
          lines, idx, inTable, tableRows, blocks, content, genResult>>

\* genResult before callGeminiAPI returned.
NoGen == [kind |-> "none", text |-> <<>>]

\* A body field that was not sent (undefined after destructuring).
Absent == "<absent>"

----------------------------------------------------------------------------
(* Bounds *)
MaxPosts == 2
MaxClock == 1
MaxLines == 5
MaxChars == 5

----------------------------------------------------------------------------
(* The store: POST /api/user-inputs and GET /api/user-inputs/:userId *)

Required == {"location", "landSize", "landType", "season", "waterFacility", "duration"}
FieldValues == {Absent, "", "v"}
UserIds == {"u1"}

\* JavaScript's !x for the values a JSON body field takes here.
Falsy(x) == x = Absent \/ x = ""

\* x || d
OrDefault(x, d) == IF Falsy(x) THEN d ELSE x

MissingRequiredSkipsSeason(body) ==
    \E f \in Required \ {"season"} : Falsy(body[f])

\* !location || !landSize || !landType || !season || !waterFacility || !duration
MissingRequired(body) ==
    Falsy(body["location"]) \/ Falsy(body["landSize"]) \/ Falsy(body["landType"])
      \/ Falsy(body["season"]) \/ Falsy(body["waterFacility"]) \/ Falsy(body["duration"])

\* The handler runs to the end of its synchronous part: it answers 400, or
\* hands one INSERT to db.run and answers later from the callback.
PostUserInputs(body, userId) ==
    /\ Len(posts) < MaxPosts
    /\ LET id == Len(posts) + 1
           incomplete == \E f \in Required : body[f] \in {Absent, ""}
       IN IF MissingRequired(body)
          THEN /\ posts' = Append(posts, [incomplete |-> incomplete, status |-> 400,
                                          pc |-> "done", rowid |-> 0])
               /\ UNCHANGED pending
          ELSE /\ posts' = Append(posts, [incomplete |-> incomplete, status |-> 0,
                                          pc |-> "db", rowid |-> 0])
               /\ pending' = pending \cup
                    {[req |-> id, user_id |-> OrDefault(userId, "anonymous")]}
    /\ UNCHANGED <<table, clock, lastGet>>

\* db.run executes the INSERT: AUTOINCREMENT id, created_at DEFAULT
\* CURRENT_TIMESTAMP; the callback answers {success, id: this.lastID}.
DbRunInsert(p) ==
    /\ p \in pending
    /\ LET rowid == Len(table) + 1
       IN /\ table' = Append(table, [id |-> rowid, user_id |-> p.user_id,
                                     created_at |-> clock, req |-> p.req])
          /\ posts' = [posts EXCEPT ![p.req] =
                         [@ EXCEPT !.status = 200, !.pc = "done", !.rowid = rowid]]
    /\ pending' = pending \ {p}
    /\ UNCHANGED <<clock, lastGet>>

\* db.run calls back with err: 500, no row.
DbRunError(p) ==
    /\ p \in pending
    /\ posts' = [posts EXCEPT ![p.req] = [@ EXCEPT !.status = 500, !.pc = "done"]]
    /\ pending' = pending \ {p}
    /\ UNCHANGED <<table, clock, lastGet>>

\* One second passes.
Tick ==
    /\ clock < MaxClock
    /\ clock' = clock + 1
    /\ UNCHANGED <<table, pending, posts, lastGet>>

Matching(userId) == {i \in 1..Len(table) : table[i].user_id = userId}

\* WHERE user_id = ? ORDER BY created_at DESC: every arrangement of the
\* matching rows with created_at non-increasing; SQL leaves the order of rows
\* with equal keys open.
Orderings(userId) ==
    LET m == Matching(userId)
        n == Cardinality(m)
    IN {s \in [1..n -> m] :
          /\ \A i, j \in 1..n : i # j => s[i] # s[j]
          /\ \A i, j \in 1..n : i < j => table[s[i]].created_at >= table[s[j]].created_at}

GetUserInputs(userId) ==
    /\ \E s \in Orderings(userId) :
         lastGet' = [userId |-> userId, status |-> 200, upto |-> Len(table),
                     rows |-> [i \in 1..Len(s) |-> table[s[i]]]]
    /\ UNCHANGED <<table, pending, posts, clock>>

\* db.all calls back with err.
GetUserInputsError(userId) ==
    /\ lastGet' = [userId |-> userId, status |-> 500, upto |-> Len(table), rows |-> <<>>]
    /\ UNCHANGED <<table, pending, posts, clock>>

NoGet == [userId |-> Absent, status |-> 0, upto |-> 0, rows |-> <<>>]

----------------------------------------------------------------------------
(* Characters and the regular expressions of the report renderer.  A line  *)
(* is a sequence of one-character strings.                                  *)

Upper == {"A","B","C","D","E","F","G","H","I","J","K","L","M",
          "N","O","P","Q","R","S","T","U","V","W","X","Y","Z"}
Lower == {"a","b","c","d","e","f","g","h","i","j","k","l","m",
          "n","o","p","q","r","s","t","u","v","w","x","y","z"}
\* \s
Space == {" ", "\t", "\n", "\r", "\f"}

Drop(s, n) == SubSeq(s, n + 1, Len(s))

RECURSIVE TrimStart(_)
TrimStart(s) ==
    IF s # <<>> /\ Head(s) \in Space THEN TrimStart(Tail(s)) ELSE s

RECURSIVE TrimEnd(_)
TrimEnd(s) ==
    IF s # <<>> /\ s[Len(s)] \in Space THEN TrimEnd(SubSeq(s, 1, Len(s) - 1)) ELSE s

\* String.prototype.trim
Trim(s) == TrimEnd(TrimStart(s))

\* The length of the longest run of '#' at the start of s.
RECURSIVE HashRun(_)
HashRun(s) == IF s # <<>> /\ Head(s) = "#" THEN 1 + HashRun(Tail(s)) ELSE 0

\* /^#{1,6}\s/
IsMdHeading(t) ==
    LET n == HashRun(t)
    IN n >= 1 /\ n <= 6 /\ Len(t) > n /\ t[n + 1] \in Space

\* /^[A-Z][A-Za-z\s]+:$/
IsColonHeading(t) ==
    /\ Len(t) >= 3
    /\ t[1] \in Upper
    /\ t[Len(t)] = ":"
    /\ \A i \in 2..(Len(t) - 1) : t[i] \in Upper \cup Lower \cup Space

\* /^[-*]\s/
IsBullet(t) == Len(t) >= 2 /\ t[1] \in {"-", "*"} /\ t[2] \in Space

\* /^\|.*\|$/
IsPipeRow(t) == Len(t) >= 2 /\ t[1] = "|" /\ t[Len(t)] = "|"

\* String.prototype.split('|'): the pieces between the separators.
RECURSIVE SplitPipe(_, _)
SplitPipe(s, cur) ==
    IF s = <<>> THEN <<cur>>
    ELSE IF Head(s) = "|" THEN <<cur>> \o SplitPipe(Tail(s), <<>>)
    ELSE SplitPipe(Tail(s), Append(cur, Head(s)))

\* Array.prototype.slice(1, -1)
Slice1m1(a) == IF Len(a) <= 2 THEN <<>> ELSE SubSeq(a, 2, Len(a) - 1)

\* trimmed.split('|').slice(1, -1).map(cell => cell.trim())
Cells(t) ==
    LET parts == Slice1m1(SplitPipe(t, <<>>))
    IN [i \in 1..Len(parts) |-> Trim(parts[i])]

NoCells == <<>>

HeadingBlock(t) ==
    LET n == HashRun(t)
    IN [type |-> "heading", size |-> 18 - n * 2, text |-> Drop(t, n + 1),
        header |-> NoCells, rows |-> <<>>]

SubHeadingBlock(t) ==
    [type |-> "subheading", size |-> 14, text |-> SubSeq(t, 1, Len(t) - 1),
     header |-> NoCells, rows |-> <<>>]

BulletBlock(t) ==
    [type |-> "bullet", size |-> 12, text |-> Drop(t, 2),
     header |-> NoCells, rows |-> <<>>]

ParagraphBlock(t) ==
    [type |-> "paragraph", size |-> 12, text |-> t, header |-> NoCells, rows |-> <<>>]

RenderTableHeaderLast(rows) ==
    [type |-> "table", size |-> 12, text |-> <<>>,
     header |-> rows[Len(rows)], rows |-> SubSeq(rows, 1, Len(rows) - 1)]

\* renderTable: rows[0] is the header band, rows[1..] the data bands.
RenderTable(rows) ==
    [type |-> "table", size |-> 12, text |-> <<>>,
     header |-> rows[1], rows |-> Drop(rows, 1)]

\* The branch of the if / else-if chain a line takes, given the table flag.
Rule(line, flag) ==
    LET t == Trim(line)
    IN IF IsMdHeading(t) THEN "heading"
       ELSE IF IsColonHeading(t) THEN "subheading"
       ELSE IF IsBullet(t) THEN "bullet"
       ELSE IF IsPipeRow(t) THEN "row"
       ELSE IF flag /\ t = <<>> THEN "tableEnd"
       ELSE IF flag THEN "continue"
       ELSE "paragraph"

\* The body of lines.forEach for one line, on the renderer's three
\* variables st = [inTable, tableRows, blocks].
VisitLine(st, line) ==
    LET t == Trim(line)
        r == Rule(line, st.inTable)
    IN CASE r = "heading" ->
              [st EXCEPT !.blocks = Append(@, HeadingBlock(t))]
         [] r = "subheading" ->
              [st EXCEPT !.blocks = Append(@, SubHeadingBlock(t))]
         [] r = "bullet" ->
              [st EXCEPT !.blocks = Append(@, BulletBlock(t))]
         [] r = "row" ->
              [st EXCEPT !.tableRows = Append(@, Cells(t)), !.inTable = TRUE]
         [] r = "tableEnd" ->
              [inTable |-> FALSE, tableRows |-> <<>>,
               blocks |-> Append(st.blocks, RenderTable(st.tableRows))]
         [] r = "continue" ->
              [st EXCEPT !.tableRows = Append(@, Cells(t))]
         [] OTHER ->
              [st EXCEPT !.blocks = Append(@, ParagraphBlock(t))]

EndOfLinesNoFlush(st) == st

\* After the loop: if (inTable && tableRows.length > 0) renderTable(tableRows)
EndOfLines(st) ==
    IF st.inTable /\ Len(st.tableRows) > 0
    THEN [st EXCEPT !.blocks = Append(@, RenderTable(st.tableRows))]
    ELSE st

RECURSIVE VisitAll(_, _)
VisitAll(st, ls) ==
    IF ls = <<>> THEN st ELSE VisitAll(VisitLine(st, Head(ls)), Tail(ls))

\* The typeof result === 'string' branch as a whole: the blocks of the body.
RenderText(ls) ==
    EndOfLines(VisitAll([inTable |-> FALSE, tableRows |-> <<>>, blocks |-> <<>>], ls)).blocks

----------------------------------------------------------------------------
(* SpecRender: the pass, one line per step *)

LineHeading    == <<"#", " ", "H">>
LineRowA       == <<"|", "a", "|">>
LineRowBC      == <<" ", "|", "b", "|", " ", "c", "|">>
LineBlank      == <<>>
LinePlain      == <<"x">>
LineBullet     == <<"-", " ", "x">>
LineSubHeading == <<"A", "b", ":">>

LineSamples == {LineHeading, LineRowA, LineRowBC, LineBlank, LinePlain,
                LineBullet, LineSubHeading}

Texts == UNION {[1..n -> LineSamples] : n \in 0..MaxLines}

RenderState == [inTable |-> inTable, tableRows |-> tableRows, blocks |-> blocks]

Visit(rule) ==
    /\ idx <= Len(lines)
    /\ Rule(lines[idx], inTable) = rule
    /\ LET st == VisitLine(RenderState, lines[idx])
       IN /\ inTable' = st.inTable
          /\ tableRows' = st.tableRows
          /\ blocks' = st.blocks
    /\ idx' = idx + 1
    /\ UNCHANGED lines

VisitHeading    == Visit("heading")
VisitSubHeading == Visit("subheading")
VisitBullet     == Visit("bullet")
VisitRow        == Visit("row")
VisitTableEnd   == Visit("tableEnd")
VisitContinue   == Visit("continue")
VisitParagraph  == Visit("paragraph")

\* The statements after lines.forEach, up to doc.end().
EndOfDocument ==
    /\ idx = Len(lines) + 1
    /\ blocks' = EndOfLines(RenderState).blocks
    /\ idx' = idx + 1
    /\ UNCHANGED <<lines, inTable, tableRows>>

RenderDone == idx = Len(lines) + 2

----------------------------------------------------------------------------
(* Values of the upstream routes: strings, generation results, bodies *)

\* A string, and the language it is written in.
Str(t) == [text |-> t, lang |-> "en"]

\* data.data.translations[0].translatedText for q = s
Translated(s, target) == [s EXCEPT !.lang = target]

Truthy(s) == s.text # ""

Task1 == [task |-> Str("sow"), description |-> Str("sow the seed"), importance |-> Str("High")]
Phase1 == [phaseName |-> Str("Sowing"), weekRange |-> Str("1-2"),
           tasks |-> <<Task1>>, milestones |-> <<Str("germination")>>]

PlanFull == [cropName |-> Str("rice"), totalDuration |-> Str("120 days"),
             phases |-> <<Phase1>>,
             generalTips |-> <<Str("rotate crops")>>, warnings |-> <<Str("avoid flooding")>>]

PlanTipsOnly == [cropName |-> Str("rice"), totalDuration |-> Str("120 days"),
                 phases |-> <<>>,
                 generalTips |-> <<Str("rotate crops"), Str("test the soil")>>,
                 warnings |-> <<>>]

NoObj == [cropName |-> Str(""), totalDuration |-> Str(""), phases |-> <<>>,
          generalTips |-> <<>>, warnings |-> <<>>]

Plans == {PlanFull, PlanTipsOnly}

TextResult(ls, lang) == [kind |-> "text", lines |-> ls, lang |-> lang, obj |-> NoObj]
ObjectResult(o) == [kind |-> "object", lines |-> <<>>, lang |-> "en", obj |-> o]
NoResult == [kind |-> "none", lines |-> <<>>, lang |-> "en", obj |-> NoObj]

ReportText == <<LineSubHeading, LineBullet, LineRowA, LineRowBC, LineBlank, LinePlain>>
ShortText == <<LinePlain>>

\* What callGeminiAPI can return when the endpoint replied: a parsed object
\* or a text.
GenReplies == {TextResult(ReportText, "en"), TextResult(ShortText, "en")}
                \cup {ObjectResult(o) : o \in Plans}

\* String(result) for an object result: the text "[object Object]".
LineObjectObject == <<"[", "o", "b", "j", "e", "c", "t", " ", "O", "b", "j", "e", "c", "t", "]">>

Languages == {Absent, "en", "hi"}
ApiKeys == {Absent, "k"}

\* language && language !== 'en'
WantsTranslation(language) == ~Falsy(language) /\ language # "en"

----------------------------------------------------------------------------
(* The walk of /api/crop-plan over the fields of the result *)

Path(f, ph, t, i) == [f |-> f, phase |-> ph, task |-> t, i |-> i]

RECURSIVE Concat(_)
Concat(ss) == IF ss = <<>> THEN <<>> ELSE Head(ss) \o Concat(Tail(ss))

\* <<p>> if the field is truthy (if (phase.phaseName) ...), else nothing.
IfTruthy(s, p) == IF Truthy(s) THEN <<p>> ELSE <<>>

TaskPaths(task, ph, t) ==
    IfTruthy(task.task, Path("task", ph, t, 0))
      \o IfTruthy(task.description, Path("description", ph, t, 0))
      \o IfTruthy(task.importance, Path("importance", ph, t, 0))

PhasePaths(phase, ph) ==
    IfTruthy(phase.phaseName, Path("phaseName", ph, 0, 0))
      \o IfTruthy(phase.weekRange, Path("weekRange", ph, 0, 0))
      \o Concat([t \in 1..Len(phase.tasks) |-> TaskPaths(phase.tasks[t], ph, t)])
      \o [i \in 1..Len(phase.milestones) |-> Path("milestone", ph, 0, i)]

\* The arguments of the translateText calls of the crop-plan handler, in the
\* order of its loops: phases, then generalTips, then warnings.
PlanPaths(o) ==
    Concat([ph \in 1..Len(o.phases) |-> PhasePaths(o.phases[ph], ph)])
      \o [i \in 1..Len(o.generalTips) |-> Path("generalTip", 0, 0, i)]
      \o [i \in 1..Len(o.warnings) |-> Path("warning", 0, 0, i)]

GetLeaf(o, p) ==
    CASE p.f = "cropName" -> o.cropName
      [] p.f = "totalDuration" -> o.totalDuration
      [] p.f = "phaseName" -> o.phases[p.phase].phaseName
      [] p.f = "weekRange" -> o.phases[p.phase].weekRange
      [] p.f = "task" -> o.phases[p.phase].tasks[p.task].task
      [] p.f = "description" -> o.phases[p.phase].tasks[p.task].description
      [] p.f = "importance" -> o.phases[p.phase].tasks[p.task].importance
      [] p.f = "milestone" -> o.phases[p.phase].milestones[p.i]
      [] p.f = "generalTip" -> o.generalTips[p.i]
      [] p.f = "warning" -> o.warnings[p.i]

\* phase.phaseName = ..., task.task = ..., result.generalTips[i] = ...
SetLeaf(o, p, v) ==
    CASE p.f = "cropName" -> [o EXCEPT !.cropName = v]
      [] p.f = "totalDuration" -> [o EXCEPT !.totalDuration = v]
      [] p.f = "phaseName" -> [o EXCEPT !.phases[p.phase].phaseName = v]
      [] p.f = "weekRange" -> [o EXCEPT !.phases[p.phase].weekRange = v]
      [] p.f = "task" -> [o EXCEPT !.phases[p.phase].tasks[p.task].task = v]
      [] p.f = "description" -> [o EXCEPT !.phases[p.phase].tasks[p.task].description = v]
      [] p.f = "importance" -> [o EXCEPT !.phases[p.phase].tasks[p.task].importance = v]
      [] p.f = "milestone" -> [o EXCEPT !.phases[p.phase].milestones[p.i] = v]
      [] p.f = "generalTip" -> [o EXCEPT !.generalTips[p.i] = v]
      [] p.f = "warning" -> [o EXCEPT !.warnings[p.i] = v]

\* The two translateText calls of /api/crop-analysis: result, then title.
AnalysisPaths == <<Path("result", 0, 0, 0), Path("title", 0, 0, 0)>>

----------------------------------------------------------------------------
(* translateText and the three routes that call the generation endpoint *)

NoDoc == [mode |-> "none", title |-> Str(""), blocks |-> <<>>, dump |-> NoObj]

NoReq == [route |-> "none", arg |-> Absent, language |-> Absent, apiKey |-> Absent,
          pc |-> "idle", status |-> 0, error |-> "",
          result |-> NoResult, original |-> NoResult,
          title |-> Str("Farm Advisory Report"),
          todo |-> <<>>, visited |-> <<>>, doc |-> NoDoc]

\* The outcomes of one translateText call that return are "nokey" (no API
\* key, no fetch), "status" (a reply with a non-success status) and "ok".
\* The outcomes that throw: fetch rejects, or the reply is not the expected JSON.
ThrowingOutcomes == {"transport", "malformed"}

\* translateText(text, targetLanguage, 'en', apiKey) for a string text.
TranslateText(text, target, outcome) ==
    IF outcome = "ok" THEN Translated(text, target) ELSE text

\* translateText for the result of /api/crop-analysis, which is a string or
\* an object: q is String(result), the reply's translatedText is a string.
TranslateResult(res, target, outcome) ==
    IF outcome = "ok"
    THEN TextResult(IF res.kind = "text" THEN res.lines ELSE <<LineObjectObject>>, target)
    ELSE res

\* The assignment that receives the value translateText returned.
ApplyTranslate(r, outcome) ==
    LET p == Head(r.todo)
        r1 == [r EXCEPT !.todo = Tail(@), !.visited = Append(@, p)]
    IN IF p.f = "result"
         THEN [r1 EXCEPT !.result = TranslateResult(@, r.language, outcome)]
       ELSE IF p.f = "title"
         THEN [r1 EXCEPT !.title = TranslateText(@, r.language, outcome)]
       ELSE [r1 EXCEPT !.result.obj =
               SetLeaf(@, p, TranslateText(GetLeaf(@, p), r.language, outcome))]

\* The document of /api/crop-analysis: the title, then the classified lines
\* of a string result or the JSON.stringify dump of anything else.
BuildDoc(r) ==
    IF r.result.kind = "text"
    THEN [mode |-> "lines", title |-> r.title,
          blocks |-> RenderText(r.result.lines), dump |-> NoObj]
    ELSE [mode |-> "json", title |-> r.title, blocks |-> <<>>, dump |-> r.result.obj]

\* res.json(result), or the PDF written on doc.end().
Respond(r) ==
    [r EXCEPT !.pc = "done", !.status = 200,
              !.doc = IF r.route = "crop-analysis" THEN BuildDoc(r) ELSE NoDoc]

\* The handler runs on from a completed await to its next fetch or to its
\* response; without an API key translateText returns at once.
RECURSIVE Settle(_)
Settle(r) ==
    IF r.todo = <<>> THEN Respond(r)
    ELSE IF Falsy(r.apiKey) THEN Settle(ApplyTranslate(r, "nokey"))
    ELSE [r EXCEPT !.pc = "tr"]

\* The translateText calls a handler makes once the generation call returned.
TodoFor(route, language, res) ==
    IF ~WantsTranslation(language) THEN <<>>
    ELSE IF route = "crop-analysis" THEN AnalysisPaths
    ELSE IF route = "crop-plan" /\ res.kind = "object" THEN PlanPaths(res.obj)
    ELSE <<>>

GenCall == [kind |-> "gen", path |-> Path("prompt", 0, 0, 0), open |-> TRUE, ok |-> FALSE]

IssueAll(cs, r) ==
    cs \o [i \in 1..Len(r.todo) |->
             [kind |-> "tr", path |-> r.todo[i], open |-> TRUE, ok |-> FALSE]]

\* await translateText(...): the fetch for the next field only.
IssueNext(cs, r) ==
    Append(cs, [kind |-> "tr", path |-> Head(r.todo), open |-> TRUE, ok |-> FALSE])

OpenCalls(cs) == {i \in 1..Len(cs) : cs[i].open}

\* The awaited call completes.
CloseCall(cs, ok) ==
    LET i == CHOOSE k \in OpenCalls(cs) : \A j \in OpenCalls(cs) : k <= j
    IN [cs EXCEPT ![i] = [@ EXCEPT !.open = FALSE, !.ok = ok]]

NeverMissing(x) == FALSE

\* !cropName
CropNameMissing(cropName) == Falsy(cropName)

\* !imageBase64
ImageMissing(imageBase64) == Falsy(imageBase64)

Accept(route, arg, language, apiKey) ==
    [NoReq EXCEPT !.route = route, !.arg = arg, !.language = language,
                  !.apiKey = apiKey, !.pc = "gen"]

Reject(route, arg, language, apiKey, error) ==
    [NoReq EXCEPT !.route = route, !.arg = arg, !.language = language,
                  !.apiKey = apiKey, !.pc = "done", !.status = 400, !.error = error]

Receive(missing, route, arg, language, apiKey, error) ==
    /\ req.pc = "idle"
    /\ IF missing
       THEN /\ req' = Reject(route, arg, language, apiKey, error)
            /\ UNCHANGED calls
       ELSE /\ req' = Accept(route, arg, language, apiKey)
            /\ calls' = Append(calls, GenCall)

PostCropPlan(cropName, language, apiKey) ==
    Receive(CropNameMissing(cropName), "crop-plan", cropName, language, apiKey,
            "Crop name is required")

PostDiseaseDetection(imageBase64) ==
    Receive(ImageMissing(imageBase64), "disease-detection", imageBase64, Absent, Absent,
            "Image is required")

PostCropAnalysis(body, language, apiKey) ==
    Receive(MissingRequired(body), "crop-analysis",
            IF \E f \in Required : Falsy(body[f]) THEN Absent ELSE "v",
            language, apiKey, "Missing required fields")

\* callGeminiAPI throws: the endpoint answered with a non-success status, the
\* fetch was rejected, or the reply has no candidates[0].content.parts[0].text.
GenerationThrows(how) ==
    /\ req.pc = "gen"
    /\ req' = [req EXCEPT !.pc = "done", !.status = 500, !.error = how]
    /\ calls' = CloseCall(calls, FALSE)

\* callGeminiAPI returns res; the handler runs on.
GenerationReturns(res) ==
    /\ req.pc = "gen"
    /\ LET r1 == [req EXCEPT !.result = res, !.original = res,
                             !.todo = TodoFor(req.route, req.language, res)]
           r2 == Settle(r1)
           cs == CloseCall(calls, TRUE)
       IN /\ req' = r2
          /\ calls' = IF r2.pc = "tr" THEN IssueNext(cs, r2) ELSE cs

\* The translation fetch resolves, with a success status or another one.
TranslationReturns(outcome) ==
    /\ req.pc = "tr"
    /\ outcome \in {"status", "ok"}
    /\ LET r2 == Settle(ApplyTranslate(req, outcome))
           cs == CloseCall(calls, outcome = "ok")
       IN /\ req' = r2
          /\ calls' = IF r2.pc = "tr" THEN IssueNext(cs, r2) ELSE cs

\* The translation fetch rejects, or response.json() / data.data.translations[0]
\* throws: translateText has no try, the route's catch answers 500.
TranslationThrows(how) ==
    /\ req.pc = "tr"
    /\ how \in ThrowingOutcomes
    /\ req' = [req EXCEPT !.pc = "done", !.status = 500, !.error = how]
    /\ calls' = CloseCall(calls, FALSE)

----------------------------------------------------------------------------
(* callGeminiAPI: from the fence-stripped, trimmed reply text to the value  *)
(* returned.  A text is a sequence of one-character strings.               *)

\* The characters ^ follows under the m flag.
LineTerminators == {"\n", "\r"}

\* The white space JSON allows between tokens.
JsonSpace == {" ", "\t", "\n", "\r"}

\* content.indexOf(c), 1-based, 0 for -1
IndexOf(s, c) ==
    IF \E i \in 1..Len(s) : s[i] = c
    THEN CHOOSE i \in 1..Len(s) : s[i] = c /\ \A j \in 1..(i - 1) : s[j] # c
    ELSE 0

\* content.lastIndexOf(c), 1-based, 0 for -1
LastIndexOf(s, c) ==
    IF \E i \in 1..Len(s) : s[i] = c
    THEN CHOOSE i \in 1..Len(s) : s[i] = c /\ \A j \in (i + 1)..Len(s) : s[j] # c
    ELSE 0

\* JSON.parse(t) succeeds.  Over the characters of GenAlphabet the only JSON
\* texts are the empty object with white space between its braces.
JsonParses(t) ==
    /\ Len(t) >= 2
    /\ t[1] = "{"
    /\ t[Len(t)] = "}"
    /\ \A i \in 2..(Len(t) - 1) : t[i] \in JsonSpace

\* .replace(/\*\*/g, '')
RECURSIVE RemoveBold(_)
RemoveBold(s) ==
    IF s = <<>> THEN <<>>
    ELSE IF Len(s) >= 2 /\ s[1] = "*" /\ s[2] = "*" THEN RemoveBold(Drop(s, 2))
    ELSE <<Head(s)>> \o RemoveBold(Tail(s))

\* The length of the longest run of white space at the start of s.
RECURSIVE SpaceRun(_)
SpaceRun(s) == IF s # <<>> /\ Head(s) \in Space THEN 1 + SpaceRun(Tail(s)) ELSE 0

\* .replace(/^\*\s*/gm, ''); atStart: the scan position is at a line start.
RECURSIVE StripStar(_, _)
StripStar(s, atStart) ==
    IF s = <<>> THEN <<>>
    ELSE IF atStart /\ Head(s) = "*"
      THEN LET k == SpaceRun(Tail(s))
           IN StripStar(Drop(s, 1 + k), k > 0 /\ s[1 + k] \in LineTerminators)
    ELSE <<Head(s)>> \o StripStar(Tail(s), Head(s) \in LineTerminators)

\* .replace(/^- /gm, '')
RECURSIVE StripDash(_, _)
StripDash(s, atStart) ==
    IF s = <<>> THEN <<>>
    ELSE IF atStart /\ Len(s) >= 2 /\ s[1] = "-" /\ s[2] = " "
      THEN StripDash(Drop(s, 2), FALSE)
    ELSE <<Head(s)>> \o StripDash(Tail(s), Head(s) \in LineTerminators)

\* .replace(/\n\s*\n/g, '\n'): \s* is greedy, the match ends at the last
\* newline of the white space after the first one.
RECURSIVE CollapseBlank(_)
CollapseBlank(s) ==
    IF s = <<>> THEN <<>>
    ELSE IF Head(s) = "\n"
      THEN LET rest == Tail(s)
               k == SpaceRun(rest)
               nl == {j \in 1..k : rest[j] = "\n"}
           IN IF nl # {}
              THEN <<"\n">> \o CollapseBlank(Drop(rest, CHOOSE j \in nl : \A m \in nl : m <= j))
              ELSE <<"\n">> \o CollapseBlank(rest)
    ELSE <<Head(s)>> \o CollapseBlank(Tail(s))

\* Line 70: the four replacements, in their order.
CleanProse(c) == CollapseBlank(StripDash(StripStar(RemoveBold(c), TRUE), TRUE))

\* The branch lines 57-72 take for a text.
Branch(c) ==
    LET jsonStart == IndexOf(c, "{")
        jsonEnd == LastIndexOf(c, "}")
    IN IF jsonStart # 0 /\ jsonEnd # 0 /\ jsonEnd > jsonStart
       THEN IF JsonParses(Trim(SubSeq(c, jsonStart, jsonEnd))) THEN "parsed" ELSE "unparsed"
       ELSE "prose"

CallGeminiAPICleansUnparsed(c) ==
    LET jsonStart == IndexOf(c, "{")
        jsonEnd == LastIndexOf(c, "}")
    IN CASE Branch(c) = "parsed" ->
              [kind |-> "object", text |-> Trim(SubSeq(c, jsonStart, jsonEnd))]
         [] Branch(c) = "unparsed" -> [kind |-> "text", text |-> CleanProse(c)]
         [] OTHER -> [kind |-> "text", text |-> CleanProse(c)]

\* Lines 57-72: the value callGeminiAPI returns for the text c.  An object is
\* represented by the JSON text it was parsed from.
CallGeminiAPI(c) ==
    LET jsonStart == IndexOf(c, "{")
        jsonEnd == LastIndexOf(c, "}")
    IN CASE Branch(c) = "parsed" ->
              [kind |-> "object", text |-> Trim(SubSeq(c, jsonStart, jsonEnd))]
         [] Branch(c) = "unparsed" -> [kind |-> "text", text |-> c]
         [] OTHER -> [kind |-> "text", text |-> CleanProse(c)]

GenAlphabet == {"{", "}", "*", "-", " ", "\n", "a"}

\* The texts line 54 can leave: trimmed.
ReplyTexts ==
    {s \in UNION {[1..n -> GenAlphabet] : n \in 0..MaxChars} : Trim(s) = s}

----------------------------------------------------------------------------
(* Specifications *)

StoreIdle  == table = <<>> /\ pending = {} /\ posts = <<>> /\ clock = 0 /\ lastGet = NoGet
UpIdle     == req = NoReq /\ calls = <<>>
RenderIdle == lines = <<>> /\ idx = 1 /\ inTable = FALSE /\ tableRows = <<>> /\ blocks = <<>>
GenIdle    == content = <<>> /\ genResult = NoGen

Init == StoreIdle /\ UpIdle /\ RenderIdle /\ GenIdle

Next ==
    \/ \E body \in [Required -> FieldValues], u \in UserIds \cup {Absent} :
         PostUserInputs(body, u) /\ UNCHANGED <<upVars, renderVars, genVars>>
    \/ \E p \in pending : DbRunInsert(p) /\ UNCHANGED <<upVars, renderVars, genVars>>
    \/ \E p \in pending : DbRunError(p) /\ UNCHANGED <<upVars, renderVars, genVars>>
    \/ Tick /\ UNCHANGED <<upVars, renderVars, genVars>>
    \/ \E u \in UserIds \cup {"anonymous"} :
         GetUserInputs(u) /\ UNCHANGED <<upVars, renderVars, genVars>>
    \/ \E u \in UserIds \cup {"anonymous"} :
         GetUserInputsError(u) /\ UNCHANGED <<upVars, renderVars, genVars>>

Spec == Init /\ [][Next]_vars

InitUpstream == Init

NextUpstream ==
    \/ \E c \in FieldValues, l \in Languages, k \in ApiKeys :
         PostCropPlan(c, l, k) /\ UNCHANGED <<storeVars, renderVars, genVars>>
    \/ \E i \in FieldValues :
         PostDiseaseDetection(i) /\ UNCHANGED <<storeVars, renderVars, genVars>>
    \/ \E body \in [Required -> FieldValues], l \in Languages, k \in ApiKeys :
         PostCropAnalysis(body, l, k) /\ UNCHANGED <<storeVars, renderVars, genVars>>
    \/ \E how \in {"status", "transport", "malformed"} :
         GenerationThrows(how) /\ UNCHANGED <<storeVars, renderVars, genVars>>
    \/ \E res \in GenReplies :
         GenerationReturns(res) /\ UNCHANGED <<storeVars, renderVars, genVars>>
    \/ \E o \in {"status", "ok"} :
         TranslationReturns(o) /\ UNCHANGED <<storeVars, renderVars, genVars>>
    \/ \E how \in ThrowingOutcomes :
         TranslationThrows(how) /\ UNCHANGED <<storeVars, renderVars, genVars>>

SpecUpstream == InitUpstream /\ [][NextUpstream]_vars

InitRender ==
    /\ StoreIdle /\ UpIdle /\ GenIdle
    /\ lines \in Texts
    /\ idx = 1 /\ inTable = FALSE /\ tableRows = <<>> /\ blocks = <<>>

NextRender ==
    \/ VisitHeading /\ UNCHANGED <<storeVars, upVars, genVars>>
    \/ VisitSubHeading /\ UNCHANGED <<storeVars, upVars, genVars>>
    \/ VisitBullet /\ UNCHANGED <<storeVars, upVars, genVars>>
    \/ VisitRow /\ UNCHANGED <<storeVars, upVars, genVars>>
    \/ VisitTableEnd /\ UNCHANGED <<storeVars, upVars, genVars>>
    \/ VisitContinue /\ UNCHANGED <<storeVars, upVars, genVars>>
    \/ VisitParagraph /\ UNCHANGED <<storeVars, upVars, genVars>>
    \/ EndOfDocument /\ UNCHANGED <<storeVars, upVars, genVars>>

SpecRender == InitRender /\ [][NextRender]_vars

Return(branch) ==
    /\ genResult = NoGen
    /\ Branch(content) = branch
    /\ genResult' = CallGeminiAPI(content)
    /\ UNCHANGED content

ReturnParsed   == Return("parsed")
ReturnUnparsed == Return("unparsed")
ReturnCleaned  == Return("prose")

InitGen ==
    /\ StoreIdle /\ UpIdle /\ RenderIdle
    /\ content \in ReplyTexts
    /\ genResult = NoGen

NextGen ==
    \/ ReturnParsed /\ UNCHANGED <<storeVars, upVars, renderVars>>
    \/ ReturnUnparsed /\ UNCHANGED <<storeVars, upVars, renderVars>>
    \/ ReturnCleaned /\ UNCHANGED <<storeVars, upVars, renderVars>>

SpecGen == InitGen /\ [][NextGen]_vars

----------------------------------------------------------------------------
(* Properties of the store (Spec) *)

\* C1: a POST /api/user-inputs whose body lacks one of the six required
\* fields (missing or falsy) is answered 400 and issues no INSERT: no row of
\* the table and no statement handed to db.run comes from it, whatever other
\* requests are pending or were served.
C1_IncompleteSubmissionRejected ==
    \A i \in 1..Len(posts) :
        posts[i].incomplete =>
            /\ posts[i].pc = "done"
            /\ posts[i].status = 400
            /\ \A p \in pending : p.req # i
            /\ \A k \in 1..Len(table) : table[k].req # i

\* An incomplete submission was rejected while another one's INSERT is
\* still with db.run.
C1_Witness ==
    \E i, j \in 1..Len(posts) :
        /\ posts[i].incomplete /\ posts[i].status = 400
        /\ posts[j].pc = "db"
        /\ \E p \in pending : p.req = j

\* C6: GET /api/user-inputs/:userId answers with exactly the rows of that
\* user, each once, the later inserted (larger id) before the earlier
\* inserted, also when two rows carry the same created_at.
C6_MostRecentFirst ==
    lastGet.status = 200 =>
        /\ {lastGet.rows[i].id : i \in 1..Len(lastGet.rows)}
             = {table[k].id : k \in {m \in 1..lastGet.upto :
                                       table[m].user_id = lastGet.userId}}
        /\ \A i, j \in 1..Len(lastGet.rows) :
             i < j => lastGet.rows[i].id > lastGet.rows[j].id

----------------------------------------------------------------------------
(* Properties of the upstream routes (SpecUpstream) *)

\* C2: a POST /api/crop-plan without cropName and a POST
\* /api/disease-detection without imageBase64 are answered 400, crop-plan
\* with the error "Crop name is required", and no call to the generation or
\* the translation endpoint is issued for the request.
C2_MissingArgumentRejected ==
    /\ (req.route = "crop-plan" /\ Falsy(req.arg)) =>
          /\ req.pc = "done" /\ req.status = 400
          /\ req.error = "Crop name is required"
          /\ calls = <<>>
    /\ (req.route = "disease-detection" /\ Falsy(req.arg)) =>
          /\ req.pc = "done" /\ req.status = 400
          /\ calls = <<>>

\* A crop-plan request that omitted cropName has been answered.
C2_Witness ==
    /\ req.route = "crop-plan" /\ req.arg = Absent
    /\ req.pc = "done" /\ req.status = 400

\* The generation call of the request returned a result.
GenerationSucceeded == Len(calls) >= 1 /\ ~calls[1].open /\ calls[1].ok

\* C3: a failure of a translation call is never surfaced: a crop-analysis or
\* crop-plan request whose generation call succeeded does not end in a 500.
C3_TranslationFailureNotSurfaced ==
    (/\ req.pc = "done"
     /\ req.route \in {"crop-analysis", "crop-plan"}
     /\ GenerationSucceeded)
        => req.status # 500

\* Every string-valued field of a plan, cropName and totalDuration included.
StringLeaves(o) ==
    {Path("cropName", 0, 0, 0), Path("totalDuration", 0, 0, 0)}
      \cup {Path(f, ph, 0, 0) : f \in {"phaseName", "weekRange"}, ph \in 1..Len(o.phases)}
      \cup UNION {{Path(f, ph, t, 0) : f \in {"task", "description", "importance"},
                                      t \in 1..Len(o.phases[ph].tasks)} :
                  ph \in 1..Len(o.phases)}
      \cup UNION {{Path("milestone", ph, 0, i) : i \in 1..Len(o.phases[ph].milestones)} :
                  ph \in 1..Len(o.phases)}
      \cup {Path("generalTip", 0, 0, i) : i \in 1..Len(o.generalTips)}
      \cup {Path("warning", 0, 0, i) : i \in 1..Len(o.warnings)}

Occurrences(seq, x) == Cardinality({i \in 1..Len(seq) : seq[i] = x})

\* C4: when /api/crop-plan is asked for a language other than "en" and the
\* generation result is an object, every string-valued field of the object
\* has been passed to translateText exactly once when the response is sent.
C4_EveryLeafTranslatedOnce ==
    (/\ req.pc = "done" /\ req.status = 200
     /\ req.route = "crop-plan"
     /\ WantsTranslation(req.language)
     /\ req.original.kind = "object")
        => \A p \in StringLeaves(req.original.obj) : Occurrences(req.visited, p) = 1

\* C5: the upstream calls of a request are issued one after another: at most
\* one is outstanding, a call is issued only when all earlier ones have
\* completed, the first call is the generation call and the only one, and a
\* translation call is issued only after the generation call succeeded.
C5_UpstreamCallsSequential ==
    /\ Cardinality(OpenCalls(calls)) <= 1
    /\ \A i, j \in 1..Len(calls) : i < j => ~calls[i].open
    /\ \A i \in 1..Len(calls) : (calls[i].kind = "gen") <=> (i = 1)
    /\ Len(calls) >= 2 => GenerationSucceeded
    /\ (Len(calls) >= 1 /\ ~calls[1].open /\ ~calls[1].ok) => Len(calls) = 1

\* A third upstream call of one request is outstanding: the generation call
\* and one translation call have completed before it.
C5_Witness ==
    /\ Len(calls) >= 3
    /\ calls[Len(calls)].open
    /\ calls[Len(calls)].kind = "tr"
    /\ req.pc = "tr"

\* C9: when callGeminiAPI returned an object to /api/crop-analysis, the body
\* of the document is the JSON dump of that object and no line is
\* classified, for every language, apiKey and translation outcome.
C9_ObjectRenderedAsJsonDump ==
    (/\ req.pc = "done" /\ req.status = 200
     /\ req.route = "crop-analysis"
     /\ req.original.kind = "object")
        => /\ req.doc.mode = "json"
           /\ req.doc.dump = req.original.obj

----------------------------------------------------------------------------
(* Properties of the report renderer (SpecRender) *)

IsRowLine(l) == IsPipeRow(Trim(l))

\* lines[k .. k+n-1] are the only pipe-delimited lines of the input, n >= 2,
\* and they are followed by a blank line and then a markdown heading.
TableRegion(k, n) ==
    /\ n >= 2
    /\ k >= 1
    /\ k + n + 1 <= Len(lines)
    /\ \A i \in 1..Len(lines) : IsRowLine(lines[i]) <=> (i >= k /\ i <= k + n - 1)
    /\ Trim(lines[k + n]) = <<>>
    /\ IsMdHeading(Trim(lines[k + n + 1]))

TableBlocks == {b \in 1..Len(blocks) : blocks[b].type = "table"}

\* C7: for an input whose pipe-delimited lines are N >= 2 consecutive lines
\* followed by a blank line and a heading line, the finished document has
\* exactly one table block, its header the first of the N rows and its data
\* rows the other N-1 in input order, the heading is the block right after
\* the table, and the table flag is clear and the buffer empty when the
\* heading line is visited.
C7_TableThenHeading ==
    \A k \in 1..Len(lines), n \in 2..Len(lines) :
        TableRegion(k, n) =>
            /\ (idx = k + n + 1) => (~inTable /\ tableRows = <<>>)
            /\ RenderDone =>
                 /\ Cardinality(TableBlocks) = 1
                 /\ \A b \in TableBlocks :
                      /\ blocks[b].header = Cells(Trim(lines[k]))
                      /\ blocks[b].rows =
                           [i \in 1..(n - 1) |-> Cells(Trim(lines[k + i]))]
                      /\ b < Len(blocks)
                      /\ blocks[b + 1].type = "heading"
                      /\ blocks[b + 1].text = Drop(Trim(lines[k + n + 1]),
                                                   HashRun(Trim(lines[k + n + 1])) + 1)

\* The pass has finished on an input with three rows, a blank line and a
\* heading, and the table has two data rows.
C7_Witness ==
    /\ RenderDone
    /\ \E k \in 1..Len(lines) : TableRegion(k, 3)
    /\ \E b \in TableBlocks : Len(blocks[b].rows) = 2 /\ blocks[b].header # blocks[b].rows[1]

\* C10: a line classified as a markdown heading is never visited while a
\* table is open: the table flag is clear and the buffer is empty.
C10_NoHeadingInsideTable ==
    (idx <= Len(lines) /\ Rule(lines[idx], inTable) = "heading")
        => (~inTable /\ tableRows = <<>>)

----------------------------------------------------------------------------
(* Properties of the generation client (SpecGen) *)

\* The text s without the characters at the positions of del.
RECURSIVE KeepFrom(_, _, _)
KeepFrom(s, del, i) ==
    IF i > Len(s) THEN <<>>
    ELSE (IF i \in del THEN <<>> ELSE <<s[i]>>) \o KeepFrom(s, del, i + 1)

Without(s, del) == KeepFrom(s, del, 1)

AtLineStart(s, i) == i = 1 \/ s[i - 1] = "\n"

AllSpace(s, a, b) == \A k \in a..b : s[k] \in Space

\* Every '**' removed: of a run of stars, the pairs go, an odd last one stays.
WithoutBold(s) ==
    Without(s, {i \in 1..Len(s) :
        /\ s[i] = "*"
        /\ LET a == CHOOSE x \in 1..i :
                      (\A k \in x..i : s[k] = "*") /\ (x = 1 \/ s[x - 1] # "*")
               b == CHOOSE y \in i..Len(s) :
                      (\A k \in i..y : s[k] = "*") /\ (y = Len(s) \/ s[y + 1] # "*")
           IN (i - a) < 2 * ((b - a + 1) \div 2)})

\* Every '* ' at the start of a line removed: the star and the one space.
WithoutStarSpaceMarkers(s) ==
    Without(s, {i \in 1..Len(s) :
        \/ AtLineStart(s, i) /\ s[i] = "*" /\ i < Len(s) /\ s[i + 1] = " "
        \/ i > 1 /\ AtLineStart(s, i - 1) /\ s[i - 1] = "*" /\ s[i] = " "})

\* Every '*' at the start of a line removed together with all the white
\* space that follows it, line breaks included.
WithoutStarMarkers(s) ==
    Without(s, {i \in 1..Len(s) :
        \E p \in 1..i : AtLineStart(s, p) /\ s[p] = "*" /\ AllSpace(s, p + 1, i)})

\* Every '- ' at the start of a line removed.
WithoutDashMarkers(s) ==
    Without(s, {i \in 1..Len(s) :
        \/ AtLineStart(s, i) /\ s[i] = "-" /\ i < Len(s) /\ s[i + 1] = " "
        \/ i > 1 /\ AtLineStart(s, i - 1) /\ s[i - 1] = "-" /\ s[i] = " "})

\* Every run of blank lines collapsed: of the white space between the first
\* and the last newline of a run only the first newline stays.
WithoutBlankRuns(s) ==
    Without(s, {i \in 1..Len(s) :
        /\ \E n \in 1..(i - 1) : s[n] = "\n" /\ AllSpace(s, n, i)
        /\ \E n \in i..Len(s) : s[n] = "\n" /\ AllSpace(s, i, n)})

\* A first '{' precedes a last '}'.
HasBraceSpan(c) == \E i, j \in 1..Len(c) : i < j /\ c[i] = "{" /\ c[j] = "}"

\* The text from the first '{' to the last '}'.
BraceSpan(c) ==
    LET i == CHOOSE x \in 1..Len(c) : c[x] = "{" /\ \A k \in 1..(x - 1) : c[k] # "{"
        j == CHOOSE y \in 1..Len(c) : c[y] = "}" /\ \A k \in (y + 1)..Len(c) : c[k] # "}"
    IN SubSeq(c, i, j)

\* The three results, with the prose cleaning of case (c) given by clean.
ThreeResults(clean(_)) ==
    genResult # NoGen =>
        /\ (HasBraceSpan(content) /\ JsonParses(BraceSpan(content))) =>
              genResult = [kind |-> "object", text |-> BraceSpan(content)]
        /\ (HasBraceSpan(content) /\ ~JsonParses(BraceSpan(content))) =>
              genResult = [kind |-> "text", text |-> content]
        /\ ~HasBraceSpan(content) =>
              genResult = [kind |-> "text", text |-> clean(content)]

ProseAsClaimed(c) ==
    WithoutBlankRuns(WithoutDashMarkers(WithoutStarSpaceMarkers(WithoutBold(c))))

ProseAsAmended(c) ==
    WithoutBlankRuns(WithoutDashMarkers(WithoutStarMarkers(WithoutBold(c))))

\* C8 as stated: callGeminiAPI returns (a) the parsed object when the text
\* from the first '{' to the last '}' parses, (b) the fence-stripped text
\* as it is when that span exists and does not parse, (c) with no such span
\* the text with '**' removed, leading '* ' and '- ' markers removed and
\* blank-line runs collapsed to one newline.
C8_ThreeResultsAsClaimed == ThreeResults(ProseAsClaimed)

\* C8 amended: as above, but in (c) a '*' at the start of a line is removed
\* whether or not a space follows it, together with all the white space
\* that follows it, line breaks included.
C8_ThreeResults == ThreeResults(ProseAsAmended)

\* A prose reply with a line that starts with '*' and no space after it has
\* been cleaned, and the star is gone.
C8_Witness ==
    /\ genResult # NoGen
    /\ ~HasBraceSpan(content)
    /\ \E i \in 1..(Len(content) - 1) :
         /\ AtLineStart(content, i)
         /\ content[i] = "*"
         /\ content[i + 1] \notin Space \cup {"*"}
    /\ genResult.text # content

----------------------------------------------------------------------------
(* The table buffer of the report renderer (SpecRender) *)

\* The table flag as the input determines it: some pipe row precedes line i
\* with no blank line between the two.
OpenBefore(i) ==
    \E j \in 1..(i - 1) :
        /\ j <= Len(lines)
        /\ IsRowLine(lines[j])
        /\ \A m \in (j + 1)..(i - 1) : Trim(lines[m]) # <<>>

\* Line j is appended to the buffer: by the pipe-row rule, or by the
\* continuation rule (not blank, none of the earlier rules, table open).
Appends(j) ==
    LET t == Trim(lines[j])
    IN \/ IsPipeRow(t)
       \/ /\ OpenBefore(j)
          /\ t # <<>>
          /\ ~IsMdHeading(t) /\ ~IsColonHeading(t) /\ ~IsBullet(t)

\* Line j is a blank line met while the table is open.
FlushesAt(j) == Trim(lines[j]) = <<>> /\ OpenBefore(j)

\* The rows appended by the lines before line i, in input order.
RECURSIVE AppendedBefore(_)
AppendedBefore(i) ==
    IF i <= 1 THEN <<>>
    ELSE AppendedBefore(i - 1)
           \o (IF Appends(i - 1) THEN <<Cells(Trim(lines[i - 1]))>> ELSE <<>>)

IsTableBlock(b) == b.type = "table"

\* The rows the document's tables show, header band first, table by table.
RenderedRows ==
    LET tb == SelectSeq(blocks, IsTableBlock)
    IN Concat([b \in 1..Len(tb) |-> <<tb[b].header>> \o tb[b].rows])

Visited == IF idx > Len(lines) THEN Len(lines) ELSE idx - 1

\* What C11 says of every flush but the reset after it: rendered and pending
\* rows together are the appended rows, each once and in input order; at the
\* end nothing is pending; a table is written per blank line met while the
\* flag is set and one more at the end of the input if the flag is still
\* set; the flag is set exactly when the buffer is non-empty.
BufferConserved ==
    /\ ~RenderDone => RenderedRows \o tableRows = AppendedBefore(Visited + 1)
    /\ RenderDone => RenderedRows = AppendedBefore(Len(lines) + 1)
    /\ Cardinality(TableBlocks)
         = Cardinality({j \in 1..Visited : FlushesAt(j)})
             + (IF RenderDone /\ OpenBefore(Len(lines) + 1) THEN 1 ELSE 0)
    /\ inTable <=> (tableRows # <<>>)
    /\ inTable <=> OpenBefore(Visited + 1)

\* The line just visited flushed the buffer.
JustFlushedOnBlank == idx >= 2 /\ idx <= Len(lines) + 1 /\ FlushesAt(idx - 1)

\* The statements after the loop flushed the buffer.
JustFlushedAtEnd == RenderDone /\ OpenBefore(Len(lines) + 1)

\* C11 as stated: every row appended to the buffer is rendered in exactly
\* one flush, in input order; flushes happen on a blank line while the flag
\* is set and once more at the end of the input if it is still set; after
\* each flush the buffer is empty and the flag clear; the flag is set
\* exactly when the buffer is non-empty.
C11_BufferFlushedOnceAsClaimed ==
    /\ BufferConserved
    /\ (JustFlushedOnBlank \/ JustFlushedAtEnd) => (~inTable /\ tableRows = <<>>)

\* C11 amended: as above, but only a flush on a blank line empties the
\* buffer and clears the flag; the flush at the end of the input renders the
\* buffer and leaves buffer and flag as they are.
C11_BufferFlushedOnce ==
    /\ BufferConserved
    /\ JustFlushedOnBlank => (~inTable /\ tableRows = <<>>)
    /\ JustFlushedAtEnd => (inTable /\ tableRows # <<>>)

\* The pass has finished with one table flushed by a blank line and another,
\* holding a row of the continuation rule, flushed at the end of the input.
C11_Witness ==
    /\ RenderDone
    /\ OpenBefore(Len(lines) + 1)
    /\ \E j \in 1..Len(lines) : FlushesAt(j)
    /\ \E j \in 1..Len(lines) : Appends(j) /\ ~IsRowLine(lines[j])
    /\ Cardinality(TableBlocks) >= 2

====
